---- MODULE Spec2Model ----
(***************************************************************************)
(* Model of lexical_parser.parser.LexicalParser: a character-at-a-time     *)
(* scanner driven by a state machine with deferred ("pending") token       *)
(* creation.  A document is a sequence of lines, a line a sequence of      *)
(* one-character strings, a token text a sequence of characters.           *)
(***************************************************************************)
EXTENDS Integers, Sequences, FiniteSets, TLC

VARIABLES contents, tokens, state, chars, pending_names, pending_finalizers,
          pending_meta, errored, char_index, char, line_index, line,
          pc, line_iter, char_iter, result, errors, calls

vars == <<contents, tokens, state, chars, pending_names, pending_finalizers,
          pending_meta, errored, char_index, char, line_index, line,
          pc, line_iter, char_iter, result, errors, calls>>

----------------------------------------------------------------------------
(* Bounds of the explored documents *)

MaxLines == 2

MaxChars == 3

(* Longest log of set_state and call_state invocations kept for one character *)
MaxCalls == 8

----------------------------------------------------------------------------
(* data.py *)

INITIAL == "0"

IDENTIFIER_BEGIN == "1"

IDENTIFIER_END == "2"

NUMBER_BEGIN == "3"

NUMBER_END == "4"

ATTRIBUTION == "5"

OPERATOR == "6"

DELIMITER == "7"

T_IDENTIFIER == "identifier"

T_NUMBER == "number"

T_OPERATOR == "operator"

T_ATTRIBUTION == "attribution"

Token(type, text) == [type |-> type, text |-> text]

----------------------------------------------------------------------------
(* Character classes *)

ascii_uppercase ==
  {"A","B","C","D","E","F","G","H","I","J","K","L","M",
   "N","O","P","Q","R","S","T","U","V","W","X","Y","Z"}

ascii_lowercase ==
  {"a","b","c","d","e","f","g","h","i","j","k","l","m",
   "n","o","p","q","r","s","t","u","v","w","x","y","z"}

ascii_letters == ascii_lowercase \cup ascii_uppercase

digits == {"0","1","2","3","4","5","6","7","8","9"}

operators == {"+", "-", "/", "*"}

(* Mutation: the line feed is left out of the delimiter characters *)
delimiters_NoLineFeed == {"\r", " "}

delimiters == {"\r", "\n", " "}

identifier_chars == ascii_letters \cup digits \cup {"_"}

QuickStates == {IDENTIFIER_BEGIN, OPERATOR, ATTRIBUTION, DELIMITER, NUMBER_BEGIN}

----------------------------------------------------------------------------
(* str.strip(delimiters) *)

RECURSIVE lstrip(_, _)
lstrip(s, cs) ==
  IF s # <<>> /\ Head(s) \in cs THEN lstrip(Tail(s), cs) ELSE s

RECURSIVE rstrip(_, _)
rstrip(s, cs) ==
  IF s # <<>> /\ s[Len(s)] \in cs THEN rstrip(SubSeq(s, 1, Len(s) - 1), cs) ELSE s

strip(s, cs) == rstrip(lstrip(s, cs), cs)

----------------------------------------------------------------------------
(* The parser object as a record, and its methods as operators on it *)

Self ==
  [tokens |-> tokens, state |-> state, chars |-> chars,
   pending_names |-> pending_names, pending_finalizers |-> pending_finalizers,
   pending_meta |-> pending_meta, errored |-> errored,
   char_index |-> char_index, char |-> char,
   line_index |-> line_index, line |-> line,
   errors |-> errors, calls |-> calls]

is_end_of_line(p) == p.char_index = Len(p.line)

(* Mutation: off by one, the last character is never recognised *)
is_last_char_of_line_OffByOne(p) == p.char_index = Len(p.line)

is_last_char_of_line(p) == p.char_index = Len(p.line) - 1

(* Mutation: the collector appends without looking for an equal token *)
add_token_Append(p, token_type, text) ==
  [p EXCEPT !.tokens = Append(@, Token(token_type, text))]

(* set.add with Token's value equality: the collector is kept as a        *)
(* sequence of pairwise different tokens.                                  *)
add_token(p, token_type, text) ==
  LET token == Token(token_type, text) IN
  IF \E i \in 1..Len(p.tokens) : p.tokens[i] = token
    THEN p
    ELSE [p EXCEPT !.tokens = Append(@, token)]

(* Mutation: the character buffer is not cleared after the token is made *)
add_token_chars_KeepChars(p, token_type) ==
  add_token(p, token_type, p.chars)

add_token_chars(p, token_type) ==
  [add_token(p, token_type, p.chars) EXCEPT !.chars = <<>>]

(* dict[name] = value *)
DictSet(d, name, value) ==
  [n \in (DOMAIN d) \cup {name} |-> IF n = name THEN value ELSE d[n]]

(* dict.pop(name) *)
DictPop(d, name) == [n \in (DOMAIN d) \ {name} |-> d[n]]

(* list.remove(name): drops the first occurrence *)
RECURSIVE ListRemove(_, _)
ListRemove(s, name) ==
  IF s = <<>> THEN <<>>
  ELSE IF Head(s) = name THEN Tail(s)
  ELSE <<Head(s)>> \o ListRemove(Tail(s), name)

add_pending(p, name, finalizer) ==
  [p EXCEPT !.pending_names = Append(@, name),
            !.pending_finalizers = DictSet(@, name, finalizer),
            !.pending_meta = DictSet(@, name,
               [line |-> p.line, line_index |-> p.line_index,
                char_index |-> p.char_index, char |-> p.char])]

(* Mutation: the resolved name is left in pending_names *)
finish_pending_KeepName(p, name) ==
  IF name \in DOMAIN p.pending_finalizers
    THEN LET finalizer == p.pending_finalizers[name]
             q == [p EXCEPT !.pending_finalizers = DictPop(@, name),
                            !.pending_meta = DictPop(@, name)]
         IN add_token_chars(q, finalizer)
    ELSE p

(* A finalizer is the token type its closure passes to add_token_chars *)
finish_pending(p, name) ==
  IF name \in DOMAIN p.pending_finalizers
    THEN LET finalizer == p.pending_finalizers[name]
             q == [p EXCEPT !.pending_finalizers = DictPop(@, name),
                            !.pending_names = ListRemove(@, name),
                            !.pending_meta = DictPop(@, name)]
         IN add_token_chars(q, finalizer)
    ELSE p

finish_last_pending(p) ==
  IF Len(p.pending_names) > 0
    THEN finish_pending(p, p.pending_names[Len(p.pending_names)])
    ELSE p

(* Mutation: the error flag is not set *)
handle_unknow_char_NoFlag(p) == p

(* logger.error('syntax error at line %d: %s', line_no, text) *)
SyntaxError(line_no, text) == [line_no |-> line_no, text |-> text]

(* text[index:] for a 0-based index *)
SliceFrom(text, index) == SubSeq(text, index + 1, Len(text))

(* Mutation: the reported text starts at the offending character itself *)
handle_unknow_char_NoStepBack(p) ==
  [p EXCEPT !.errored = TRUE,
            !.errors = Append(@, SyntaxError(p.line_index + 1,
                                             SliceFrom(p.line, p.char_index)))]

handle_unknow_char(p) ==
  LET index == IF p.char_index = 0 THEN p.char_index ELSE p.char_index - 1 IN
  [p EXCEPT !.errored = TRUE,
            !.errors = Append(@, SyntaxError(p.line_index + 1,
                                             SliceFrom(p.line, index)))]

RECURSIVE call_state(_)

(* One entry of the invocation log of the character being dispatched: the  *)
(* method entered, the state it is entered with (for set_state the new     *)
(* state), the registry and the buffer at that moment, and for set_state   *)
(* its now argument and whether it goes on to call_state.                  *)
LogEntry(p, op, st, now, calling) ==
  [op |-> op, state |-> st, now |-> now, calling |-> calling,
   last_char |-> is_last_char_of_line(p),
   pending_names |-> p.pending_names,
   finalizer_keys |-> DOMAIN p.pending_finalizers,
   meta_keys |-> DOMAIN p.pending_meta,
   chars |-> p.chars]

Logged(p, entry) == [p EXCEPT !.calls = Append(@, entry)]

(* Mutation: the end-of-line test is the last-character test *)
set_state_AtLastChar(p, new_state, now) ==
  LET q == [p EXCEPT !.state = new_state]
      calling == now \/ new_state \in QuickStates \/ is_last_char_of_line(q)
      r == Logged(q, LogEntry(q, "set_state", new_state, now, calling))
  IN IF calling THEN call_state(r) ELSE r

set_state(p, new_state, now) ==
  LET q == [p EXCEPT !.state = new_state]
      calling == now \/ new_state \in QuickStates \/ is_end_of_line(q)
      r == Logged(q, LogEntry(q, "set_state", new_state, now, calling))
  IN IF calling THEN call_state(r) ELSE r

(* Mutation: the terminating character is not re-dispatched (now is left out) *)
at_the_end_NoRedispatch(p, comparison) ==
  IF p.char \in comparison
    THEN LET q == [p EXCEPT !.chars = Append(@, p.char)]
         IN [self |-> q, ret |-> is_last_char_of_line(q)]
    ELSE [self |-> set_state(p, INITIAL, FALSE), ret |-> TRUE]

(* Returns the parser after the call together with the returned boolean *)
at_the_end(p, comparison) ==
  IF p.char \in comparison
    THEN LET q == [p EXCEPT !.chars = Append(@, p.char)]
         IN [self |-> q, ret |-> is_last_char_of_line(q)]
    ELSE [self |-> set_state(p, INITIAL, TRUE), ret |-> TRUE]

(* Mutation: any ASCII letter may start an identifier *)
handle_initial_AnyLetter(p) ==
  IF p.char \in ascii_letters THEN set_state(p, IDENTIFIER_BEGIN, FALSE)
  ELSE IF p.char \in digits THEN set_state(p, NUMBER_BEGIN, FALSE)
  ELSE IF p.char \in operators THEN set_state(p, OPERATOR, FALSE)
  ELSE IF p.char = "=" THEN set_state(p, ATTRIBUTION, FALSE)
  ELSE IF p.char \in delimiters THEN set_state(p, DELIMITER, FALSE)
  ELSE handle_unknow_char(p)

handle_initial(p) ==
  IF p.char \in ascii_uppercase THEN set_state(p, IDENTIFIER_BEGIN, FALSE)
  ELSE IF p.char \in digits THEN set_state(p, NUMBER_BEGIN, FALSE)
  ELSE IF p.char \in operators THEN set_state(p, OPERATOR, FALSE)
  ELSE IF p.char = "=" THEN set_state(p, ATTRIBUTION, FALSE)
  ELSE IF p.char \in delimiters THEN set_state(p, DELIMITER, FALSE)
  ELSE handle_unknow_char(p)

(* Mutation: the identifier handler resolves the number's pending entry *)
handle_identifier_end_WrongName(p) ==
  LET r == at_the_end(p, identifier_chars) IN
  IF r.ret THEN finish_pending(r.self, NUMBER_END) ELSE r.self

handle_identifier_end(p) ==
  LET r == at_the_end(p, identifier_chars) IN
  IF r.ret THEN finish_pending(r.self, IDENTIFIER_END) ELSE r.self

handle_identifier_begin(p) ==
  handle_identifier_end(
    add_pending(set_state(p, IDENTIFIER_END, FALSE), IDENTIFIER_END, T_IDENTIFIER))

handle_number_end(p) ==
  LET r == at_the_end(p, digits) IN
  IF r.ret THEN finish_pending(r.self, NUMBER_END) ELSE r.self

(* Mutation: the pending number is finalized as an identifier *)
handle_number_begin_WrongType(p) ==
  handle_number_end(
    add_pending(set_state(p, NUMBER_END, FALSE), NUMBER_END, T_IDENTIFIER))

handle_number_begin(p) ==
  handle_number_end(
    add_pending(set_state(p, NUMBER_END, FALSE), NUMBER_END, T_NUMBER))

(* Mutation: the operator handler does not go back to the initial state *)
handle_operator_KeepState(p) ==
  add_token(p, T_OPERATOR, <<p.char>>)

handle_operator(p) ==
  set_state(add_token(p, T_OPERATOR, <<p.char>>), INITIAL, FALSE)

(* Mutation: = is collected with the operator type *)
handle_attribution_AsOperator(p) ==
  set_state(add_token(p, T_OPERATOR, <<p.char>>), INITIAL, FALSE)

handle_attribution(p) ==
  set_state(add_token(p, T_ATTRIBUTION, <<p.char>>), INITIAL, FALSE)

(* Mutation: the delimiter handler re-dispatches the initial state at once *)
handle_delimiter_Now(p) ==
  finish_last_pending(set_state(p, INITIAL, TRUE))

handle_delimiter(p) ==
  finish_last_pending(set_state(p, INITIAL, FALSE))

(* The handler of the current state, looked up in state_handlers *)
Handler(p) ==
  CASE p.state = INITIAL -> handle_initial(p)
    [] p.state = IDENTIFIER_BEGIN -> handle_identifier_begin(p)
    [] p.state = IDENTIFIER_END -> handle_identifier_end(p)
    [] p.state = NUMBER_BEGIN -> handle_number_begin(p)
    [] p.state = NUMBER_END -> handle_number_end(p)
    [] p.state = OPERATOR -> handle_operator(p)
    [] p.state = ATTRIBUTION -> handle_attribution(p)
    [] p.state = DELIMITER -> handle_delimiter(p)
    [] OTHER -> p

(* A recursion that fills the log is cut off, as the interpreter's         *)
(* recursion limit cuts it off, and leaves a RecursionError entry.         *)
call_state(p) ==
  IF Len(p.calls) >= MaxCalls
    THEN Logged(p, LogEntry(p, "RecursionError", p.state, FALSE, FALSE))
    ELSE Handler(Logged(p, LogEntry(p, "call_state", p.state, FALSE, FALSE)))

----------------------------------------------------------------------------
(* Documents handed to the constructor *)

Alphabet == {"A", "b", "1", "+", "=", " ", "#"}

RECURSIVE LinesOfLen(_)
LinesOfLen(n) ==
  IF n = 0 THEN {<<>>}
  ELSE {<<c>> \o l : c \in Alphabet, l \in LinesOfLen(n - 1)}

(* Documents of n lines holding at most budget characters in total *)
RECURSIVE DocsOf(_, _)
DocsOf(n, budget) ==
  IF n = 0 THEN {<<>>}
  ELSE UNION {{<<l>> \o d : l \in LinesOfLen(k), d \in DocsOf(n - 1, budget - k)}
               : k \in 0..budget}

BoundedDocs == UNION {DocsOf(n, MaxChars) : n \in 0..MaxLines}

ExampleDocs ==
  { << <<"1","2","A">> >>,
    << <<"A","B">> >>,
    << <<"A","B","\n">> >>,
    << <<"A","_","b","1","Z","\r","\n">> >>,
    << <<"2","0","9","\n">> >>,
    << <<"A","1"," ","=", " ","B","2"," ","+"," ","3">> >>,
    << <<"A","B","=">> >>,
    << <<"X","-">>, <<"Y","/">>, <<"Z","*">> >>,
    << <<" ","-","\n">>, <<"\r","\n">>, <<"/">>, <<"*"," ">> >>,
    << <<" ","\n">>, <<"\n">> >>,
    << <<"\r","\n">> >>,
    << <<"\n">>, <<"A","\n">>, <<"1","\r","\n">> >>,
    << <<"A","1"," ","A","1">>, <<"A","1"," ","+"," ","+">> >> }

Docs == BoundedDocs \cup ExampleDocs

----------------------------------------------------------------------------
(* LexicalParser.__init__ and LexicalParser.parse *)

None == "None"

NoIndex == -1

Init ==
  /\ contents \in Docs
  /\ tokens = <<>>
  /\ state = None
  /\ chars = <<>>
  /\ pending_names = <<>>
  /\ pending_finalizers = <<>>
  /\ pending_meta = <<>>
  /\ errored = FALSE
  /\ char_index = NoIndex
  /\ char = None
  /\ line_index = NoIndex
  /\ line = <<>>
  /\ pc = "for_line"
  /\ line_iter = 0
  /\ char_iter = 0
  /\ result = [kind |-> "running", tokens |-> <<>>]
  /\ errors = <<>>
  /\ calls = <<>>

Install(p) ==
  /\ tokens' = p.tokens
  /\ state' = p.state
  /\ chars' = p.chars
  /\ pending_names' = p.pending_names
  /\ pending_finalizers' = p.pending_finalizers
  /\ pending_meta' = p.pending_meta
  /\ errored' = p.errored
  /\ char_index' = p.char_index
  /\ char' = p.char
  /\ line_index' = p.line_index
  /\ line' = p.line
  /\ errors' = p.errors
  /\ calls' = p.calls

(* Mutation: the state is not reset at the start of a line *)
ForLine_KeepState ==
  /\ pc = "for_line"
  /\ line_iter < Len(contents)
  /\ Install([Self EXCEPT !.line = strip(contents[line_iter + 1], delimiters),
                          !.line_index = line_iter])
  /\ line_iter' = line_iter + 1
  /\ char_iter' = 0
  /\ pc' = "for_char"
  /\ UNCHANGED <<contents, result>>

(* for line_index, line in enumerate(self.contents): strip, new beginning *)
ForLine ==
  /\ pc = "for_line"
  /\ line_iter < Len(contents)
  /\ Install([Self EXCEPT !.line = strip(contents[line_iter + 1], delimiters),
                          !.line_index = line_iter,
                          !.state = INITIAL])
  /\ line_iter' = line_iter + 1
  /\ char_iter' = 0
  /\ pc' = "for_char"
  /\ UNCHANGED <<contents, result>>

(* one iteration of the character loop: dispatch the character *)
ReadChar ==
  /\ pc = "for_char"
  /\ char_iter < Len(line)
  /\ ~errored
  /\ Install(call_state([Self EXCEPT !.char_index = char_iter,
                                     !.char = line[char_iter + 1],
                                     !.calls = <<>>]))
  /\ char_iter' = char_iter + 1
  /\ UNCHANGED <<contents, pc, line_iter, result>>

(* if self.errored: break *)
BreakLine ==
  /\ pc = "for_char"
  /\ char_iter < Len(line)
  /\ errored
  /\ pc' = "for_line"
  /\ UNCHANGED <<contents, tokens, state, chars, pending_names,
                 pending_finalizers, pending_meta, errored, char_index, char,
                 line_index, line, line_iter, char_iter, result, errors, calls>>

(* the character loop is exhausted *)
EndLine ==
  /\ pc = "for_char"
  /\ char_iter = Len(line)
  /\ pc' = "for_line"
  /\ UNCHANGED <<contents, tokens, state, chars, pending_names,
                 pending_finalizers, pending_meta, errored, char_index, char,
                 line_index, line, line_iter, char_iter, result, errors, calls>>

(* the value parse returns once every line has been walked *)
ParseResult ==
  IF errored THEN [kind |-> "False", tokens |-> <<>>]
  ELSE IF Len(pending_names) > 0 THEN [kind |-> "False", tokens |-> <<>>]
  ELSE [kind |-> "tokens", tokens |-> tokens]

(* one syntax error for each pending left open, when no line errored *)
PendingErrors ==
  IF errored THEN <<>>
  ELSE [i \in 1..Len(pending_names) |->
          LET meta == pending_meta[pending_names[i]] IN
          SyntaxError(meta.line_index + 1, SliceFrom(meta.line, meta.char_index))]

Return ==
  /\ pc = "for_line"
  /\ line_iter = Len(contents)
  /\ result' = ParseResult
  /\ errors' = errors \o PendingErrors
  /\ pc' = "done"
  /\ UNCHANGED <<contents, tokens, state, chars, pending_names,
                 pending_finalizers, pending_meta, errored, char_index, char,
                 line_index, line, line_iter, char_iter, calls>>

Next == ForLine \/ ReadChar \/ BreakLine \/ EndLine \/ Return

Spec == Init /\ [][Next]_vars

----------------------------------------------------------------------------
(* Vocabulary of the properties *)

Range(s) == {s[i] : i \in 1..Len(s)}

Done == pc = "done"

Succeeded == Done /\ result.kind = "tokens"

Failed == Done /\ result.kind = "False"

WhiteSpace == {"\r", "\n", " "}

IsDigitRun(w) == Len(w) > 0 /\ \A i \in 1..Len(w) : w[i] \in digits

IsIdentifier(w) ==
  /\ Len(w) > 0
  /\ w[1] \in ascii_uppercase
  /\ \A i \in 2..Len(w) : w[i] \in ascii_letters \cup digits \cup {"_"}

IsSymbol(w) == Len(w) = 1 /\ w[1] \in {"+", "-", "/", "*", "="}

LexemeType(w) ==
  IF IsIdentifier(w) THEN T_IDENTIFIER
  ELSE IF IsDigitRun(w) THEN T_NUMBER
  ELSE IF w = <<"=">> THEN T_ATTRIBUTION
  ELSE T_OPERATOR

IsLexeme(w) == IsIdentifier(w) \/ IsDigitRun(w) \/ IsSymbol(w)

(* l is w followed by nothing but white space *)
EndsAfter(l, w) ==
  /\ Len(w) <= Len(l)
  /\ SubSeq(l, 1, Len(w)) = w
  /\ \A i \in (Len(w) + 1)..Len(l) : l[i] \in WhiteSpace

Prefixes(l) == {SubSeq(l, 1, k) : k \in 1..Len(l)}

(* The maximal runs of non-white-space characters of a line *)
Fields(l) ==
  {SubSeq(l, ij[1], ij[2]) : ij \in
    {ij \in (1..Len(l)) \X (1..Len(l)) :
       /\ ij[1] <= ij[2]
       /\ \A k \in ij[1]..ij[2] : l[k] \notin WhiteSpace
       /\ (ij[1] = 1 \/ l[ij[1] - 1] \in WhiteSpace)
       /\ (ij[2] = Len(l) \/ l[ij[2] + 1] \in WhiteSpace)}}

DocFields == UNION {Fields(contents[i]) : i \in 1..Len(contents)}

(* Positions of the document holding a character that is not white space *)
Inked ==
  UNION {{<<i, j>> : j \in {k \in 1..Len(contents[i]) : contents[i][k] \notin WhiteSpace}}
           : i \in 1..Len(contents)}

DocChars ==
  UNION {Range(contents[i]) : i \in 1..Len(contents)}

KnownChars ==
  ascii_letters \cup digits \cup {"_", "+", "-", "/", "*", "="} \cup WhiteSpace

NoDuplicates(s) == \A i, j \in 1..Len(s) : i # j => s[i] # s[j]

----------------------------------------------------------------------------
(* C1: a one-line document made of a digit run immediately followed by an  *)
(* uppercase letter parses successfully into exactly two tokens, the       *)
(* number with the digit run as text and the identifier with the letter as *)
(* text.                                                                   *)
C1_NumberThenLetter ==
  (Done /\ Len(contents) = 1) =>
    \A w \in Prefixes(contents[1]) :
      (/\ IsDigitRun(w)
       /\ Len(contents[1]) = Len(w) + 1
       /\ contents[1][Len(w) + 1] \in ascii_uppercase)
      => /\ result.kind = "tokens"
         /\ Range(result.tokens) =
              {Token(T_NUMBER, w), Token(T_IDENTIFIER, <<contents[1][Len(w) + 1]>>)}
         /\ Len(result.tokens) = 2

(* C2: a one-line document holding a valid identifier w, ending the line   *)
(* or followed by delimiters, yields exactly one token: identifier w.      *)
C2_SingleIdentifier ==
  (Done /\ Len(contents) = 1) =>
    \A w \in Prefixes(contents[1]) :
      (IsIdentifier(w) /\ EndsAfter(contents[1], w))
      => /\ result.kind = "tokens"
         /\ result.tokens = <<Token(T_IDENTIFIER, w)>>

C2_Witness ==
  /\ Succeeded
  /\ Len(contents) = 1
  /\ Len(contents[1]) >= 3
  /\ contents[1][Len(contents[1])] \in WhiteSpace
  /\ \E w \in Prefixes(contents[1]) :
       /\ IsIdentifier(w) /\ EndsAfter(contents[1], w) /\ Len(w) >= 2
       /\ result.tokens = <<Token(T_IDENTIFIER, w)>>

(* C3: a one-line document holding a non-empty digit string w, ending the  *)
(* line or followed by delimiters, yields exactly one token: number w.     *)
C3_SingleNumber ==
  (Done /\ Len(contents) = 1) =>
    \A w \in Prefixes(contents[1]) :
      (IsDigitRun(w) /\ EndsAfter(contents[1], w))
      => /\ result.kind = "tokens"
         /\ result.tokens = <<Token(T_NUMBER, w)>>

C3_Witness ==
  /\ Succeeded
  /\ Len(contents) = 1
  /\ \E w \in Prefixes(contents[1]) :
       /\ IsDigitRun(w) /\ EndsAfter(contents[1], w) /\ Len(w) >= 2
       /\ result.tokens = <<Token(T_NUMBER, w)>>

(* C4: when every line is made of valid lexemes separated by delimiters,   *)
(* parse succeeds and returns exactly the {type, text} pairs of those      *)
(* lexemes.                                                                *)
C4_SeparatedLexemes ==
  (Done /\ \A w \in DocFields : IsLexeme(w)) =>
    /\ result.kind = "tokens"
    /\ Range(result.tokens) = {Token(LexemeType(w), w) : w \in DocFields}

C4_Witness ==
  /\ Succeeded
  /\ contents = << <<"A","1"," ","=", " ","B","2"," ","+"," ","3">> >>
  /\ Range(result.tokens) =
       {Token(T_IDENTIFIER, <<"A","1">>), Token(T_ATTRIBUTION, <<"=">>),
        Token(T_IDENTIFIER, <<"B","2">>), Token(T_OPERATOR, <<"+">>),
        Token(T_NUMBER, <<"3">>)}
  /\ Len(result.tokens) = 5

(* C5: a document holding a character outside every classifier category    *)
(* and continuation set makes parse return the failure signal, whatever    *)
(* tokens were collected before.                                           *)
C5_UnknownCharFails ==
  (Done /\ DocChars \ KnownChars # {}) => result.kind = "False"

C5_Witness ==
  /\ Failed
  /\ DocChars \ KnownChars # {}
  /\ Len(tokens) > 0
  /\ line_index = 1

(* C6: a one-line document made of a valid identifier w directly followed  *)
(* by an operator symbol or by = parses successfully and the result holds  *)
(* both the identifier w and the one-character operator or attribution.    *)
C6_IdentifierThenSymbol ==
  (Done /\ Len(contents) = 1) =>
    \A w \in Prefixes(contents[1]) :
      (/\ IsIdentifier(w)
       /\ Len(contents[1]) = Len(w) + 1
       /\ IsSymbol(<<contents[1][Len(w) + 1]>>))
      => /\ result.kind = "tokens"
         /\ Token(T_IDENTIFIER, w) \in Range(result.tokens)
         /\ Token(LexemeType(<<contents[1][Len(w) + 1]>>),
                  <<contents[1][Len(w) + 1]>>) \in Range(result.tokens)

C6_Witness ==
  /\ Succeeded
  /\ contents = << <<"A","B","=">> >>
  /\ Token(T_IDENTIFIER, <<"A","B">>) \in Range(result.tokens)
  /\ Token(T_ATTRIBUTION, <<"=">>) \in Range(result.tokens)

(* C7: a document whose only non-delimiter character is one of + - / *     *)
(* yields exactly one operator token with that character as text, and one  *)
(* whose only non-delimiter character is = yields exactly one attribution  *)
(* token with text "=".                                                    *)
C7_LoneSymbol ==
  Done =>
    \A ij \in Inked :
      (Inked = {ij} /\ IsSymbol(<<contents[ij[1]][ij[2]]>>))
      => /\ result.kind = "tokens"
         /\ result.tokens =
              << Token(IF contents[ij[1]][ij[2]] = "=" THEN T_ATTRIBUTION
                                                       ELSE T_OPERATOR,
                       <<contents[ij[1]][ij[2]]>>) >>

C7_Witness ==
  /\ Succeeded
  /\ Len(contents) = 2
  /\ \E ij \in Inked :
       /\ Inked = {ij}
       /\ ij[2] > 1
       /\ result.tokens = <<Token(T_OPERATOR, <<"+">>)>>

(* C8: a lowercase letter dispatched while an identifier is in progress is *)
(* appended to the identifier's text and raises no error; a lowercase      *)
(* letter dispatched in any other state is examined by the initial state,  *)
(* sets the error flag, and the scan then ends in failure.                 *)
C8_LowercaseOnlyContinues ==
  [][ /\ (/\ pc = "for_char" /\ pc' = "for_char"
          /\ char_iter' = char_iter + 1
          /\ line[char_iter + 1] \in ascii_lowercase)
         => IF state = IDENTIFIER_END
              THEN /\ ~errored'
                   /\ \/ chars' = Append(chars, line[char_iter + 1])
                      \/ /\ chars' = <<>>
                         /\ Token(T_IDENTIFIER, Append(chars, line[char_iter + 1]))
                              \in Range(tokens')
              ELSE errored'
      /\ (errored /\ pc' = "done") => result'.kind = "False"
    ]_vars

C8_Witness ==
  /\ Succeeded
  /\ contents = << <<"A","b">> >>
  /\ result.tokens = <<Token(T_IDENTIFIER, <<"A","b">>)>>

(* C9: a document whose lines hold only delimiter characters, the empty    *)
(* document included, parses to the empty token set and never sets the     *)
(* error flag.                                                             *)
C9_OnlyDelimiters ==
  (DocChars \subseteq WhiteSpace) =>
    /\ ~errored
    /\ Done => (result.kind = "tokens" /\ result.tokens = <<>>)

C9_Witness ==
  /\ Succeeded
  /\ DocChars = {" ", "\n"}
  /\ Len(contents) = 2
  /\ result.tokens = <<>>

(* C10: the collector never holds two tokens with the same type and text,  *)
(* so a successful result has one entry per {type, text} pair however      *)
(* often the lexeme occurs.                                                *)
C10_Deduplicated ==
  /\ NoDuplicates(tokens)
  /\ Succeeded => (NoDuplicates(result.tokens) /\ result.tokens = tokens)

C10_Witness ==
  /\ Succeeded
  /\ contents = << <<"A","1"," ","A","1">>, <<"A","1"," ","+"," ","+">> >>
  /\ Len(result.tokens) = 2

----------------------------------------------------------------------------
(* C11: when a character at 0-based index i of stripped line n (0-based)   *)
(* takes the unknown-character path, one diagnostic is emitted: line       *)
(* number n + 1 and the line text from index i - 1, or from 0 when i = 0.  *)
C11_UnknownCharDiagnostic ==
  [][ (~errored /\ errored') =>
        /\ char_index' = char_iter /\ line' = line /\ line_index' = line_index
        /\ errors' = Append(errors,
             [line_no |-> line_index + 1,
              text |-> SubSeq(line, IF char_iter = 0 THEN 1 ELSE char_iter,
                              Len(line))])
    ]_vars

C11_Witness ==
  /\ Failed
  /\ Len(errors) = 1
  /\ errors[1].line_no = 2
  /\ char_index >= 1
  /\ Len(errors[1].text) = Len(line) - char_index + 1
  /\ errors[1].text[2] = char

(* C12: after an unknown-character error only the rest of that line is     *)
(* skipped: the character loop is left early only on the line the error    *)
(* was reported on, and the characters of later lines are dispatched.      *)
C12_LaterLinesDispatched ==
  [][ (pc = "for_char" /\ pc' = "for_line" /\ char_iter < Len(line)) =>
        /\ Len(errors) > 0
        /\ errors[Len(errors)].line_no = line_index + 1
    ]_vars

(* C13: whenever the character loop of a line has finished, by exhaustion  *)
(* or by the break, the Pending Registry is empty; so parse never fails    *)
(* for an unresolved pending and reports none.                             *)
C13_RegistryEmptyBetweenLines ==
  /\ (pc \in {"for_line", "done"}) =>
       /\ pending_names = <<>>
       /\ DOMAIN pending_finalizers = {}
       /\ DOMAIN pending_meta = {}
  /\ Done => /\ (result.kind = "False" => errored)
             /\ (~errored => errors = <<>>)

C13_Witness ==
  /\ pc = "for_line"
  /\ errored
  /\ char_iter < Len(line)
  /\ Len(tokens) >= 1
  /\ pending_names = <<>>

----------------------------------------------------------------------------
(* Vocabulary of the properties on the invocation log *)

(* The dispatched character ended a multi-character token and was          *)
(* re-dispatched: the log starts in identifier_end or number_end and has   *)
(* a later call_state.                                                     *)
Redispatched ==
  /\ Len(calls) >= 2
  /\ calls[1].op = "call_state"
  /\ calls[1].state \in {IDENTIFIER_END, NUMBER_END}

RegistryInStep(names, finalizer_keys, meta_keys) ==
  /\ NoDuplicates(names)
  /\ Range(names) = finalizer_keys
  /\ Range(names) = meta_keys

WellFormed(token) ==
  CASE token.type = "identifier" ->
         /\ Len(token.text) > 0
         /\ token.text[1] \in ascii_uppercase
         /\ \A i \in 1..Len(token.text) :
              token.text[i] \in ascii_letters \cup digits \cup {"_"}
    [] token.type = "number" ->
         /\ Len(token.text) > 0
         /\ \A i \in 1..Len(token.text) : token.text[i] \in digits
    [] token.type = "operator" ->
         token.text \in {<<"+">>, <<"-">>, <<"/">>, <<"*">>}
    [] token.type = "attribution" -> token.text = <<"=">>
    [] OTHER -> FALSE

(* Work left to parse: the untouched lines, the rest of the current line   *)
(* and the return.                                                         *)
RECURSIVE LinesLeft(_)
LinesLeft(i) ==
  IF i > Len(contents) THEN 0 ELSE Len(contents[i]) + 2 + LinesLeft(i + 1)

Measure ==
  LinesLeft(line_iter + 1)
  + (IF pc = "for_char" THEN Len(line) - char_iter + 1 ELSE 0)
  + (IF pc = "done" THEN 0 ELSE 1)

----------------------------------------------------------------------------
(* C14: when a character ends a multi-character token, the pending token   *)
(* is flushed before the character is re-examined: every handler entered   *)
(* by the re-dispatch finds the ended token's pending entry closed and the *)
(* character buffer emptied.                                               *)
C14_FlushBeforeRedispatch ==
  Redispatched =>
    \A k \in 2..Len(calls) :
      calls[k].op = "call_state" =>
        /\ calls[1].state \notin Range(calls[k].pending_names)
        /\ calls[k].chars = <<>>

(* C15, as claimed: set_state into identifier_end or number_end without    *)
(* now invokes the handler exactly when the current character is the last  *)
(* character of the line.                                                  *)
C15_HandlerForcedAtLastChar ==
  \A k \in 1..Len(calls) :
    (/\ calls[k].op = "set_state"
     /\ calls[k].state \in {IDENTIFIER_END, NUMBER_END}
     /\ ~calls[k].now)
    => (calls[k].calling <=> calls[k].last_char)

(* C15, amended: set_state into identifier_end or number_end without now   *)
(* never invokes the handler, on the last character of the line as on any  *)
(* other: the next thing logged, if any, is not a call_state.              *)
C15_NonQuickNeverInvoked ==
  \A k \in 1..Len(calls) :
    (/\ calls[k].op = "set_state"
     /\ calls[k].state \in {IDENTIFIER_END, NUMBER_END}
     /\ ~calls[k].now)
    => /\ ~calls[k].calling
       /\ k < Len(calls) => calls[k + 1].op = "set_state"

C15_Witness ==
  \E k \in 1..Len(calls) :
    /\ calls[k].op = "set_state"
    /\ calls[k].state = IDENTIFIER_END
    /\ ~calls[k].now
    /\ calls[k].last_char
    /\ ~calls[k].calling
    /\ k = Len(calls)

(* C16: when the first character of a line is dispatched the state is      *)
(* initial and the character buffer is empty.                              *)
C16_LineStartsClean ==
  /\ (pc = "for_char" /\ char_iter = 0 /\ Len(line) > 0 /\ ~errored) =>
       (state = INITIAL /\ chars = <<>>)
  /\ (pc = "for_char" /\ char_iter = 1) =>
       /\ Len(calls) >= 1
       /\ calls[1].op = "call_state"
       /\ calls[1].state = INITIAL
       /\ calls[1].chars = <<>>

C16_Witness ==
  /\ pc = "for_char"
  /\ line_iter = 2
  /\ char_iter = 1
  /\ Len(contents[1]) > 0
  /\ contents[1][Len(contents[1])] \in ascii_uppercase
  /\ Len(tokens) = 2
  /\ calls[1].state = INITIAL

(* C17: the registry holds at most one entry per state name, and           *)
(* pending_names, pending_finalizers and pending_meta name the same        *)
(* entries, between characters and at every handler entry.                 *)
C17_RegistryInStep ==
  /\ RegistryInStep(pending_names, DOMAIN pending_finalizers, DOMAIN pending_meta)
  /\ \A k \in 1..Len(calls) :
       RegistryInStep(calls[k].pending_names, calls[k].finalizer_keys,
                      calls[k].meta_keys)

C17_Witness ==
  /\ pending_names = <<IDENTIFIER_END>>
  /\ DOMAIN pending_finalizers = {IDENTIFIER_END}
  /\ DOMAIN pending_meta = {IDENTIFIER_END}
  /\ \E k \in 1..Len(calls) :
       /\ calls[k].op = "call_state"
       /\ calls[k].state = IDENTIFIER_BEGIN
       /\ calls[k].pending_names = <<NUMBER_END>>

(* C18: when a character is about to be dispatched the state is initial    *)
(* with an empty registry, or identifier_end (number_end) with exactly the *)
(* identifier_end (number_end) entry open.                                 *)
C18_RegistryMatchesState ==
  (pc = "for_char" /\ char_iter < Len(line) /\ ~errored) =>
    \/ state = INITIAL /\ pending_names = <<>>
    \/ state = IDENTIFIER_END /\ pending_names = <<IDENTIFIER_END>>
    \/ state = NUMBER_END /\ pending_names = <<NUMBER_END>>

C18_Witness ==
  /\ pc = "for_char" /\ char_iter < Len(line) /\ ~errored
  /\ state = IDENTIFIER_END
  /\ pending_names = <<IDENTIFIER_END>>
  /\ chars = <<>>
  /\ Len(tokens) = 1

(* C19: every token in the collector is well formed for its type.          *)
C19_TokensWellFormed ==
  \A i \in 1..Len(tokens) : WellFormed(tokens[i])

(* C20: parse terminates: every step strictly decreases the work left,     *)
(* every dispatch takes the next character of the line, and the calls      *)
(* made for one character never overflow and enter handle_initial at most  *)
(* once.                                                                   *)
C20_Terminates ==
  [][ /\ Measure' < Measure
      /\ (pc = "for_char" /\ pc' = "for_char") =>
           /\ char_iter' = char_iter + 1
           /\ char_index' = char_iter
           /\ char' = line[char_iter + 1]
      /\ \A k \in 1..Len(calls') : calls'[k].op # "RecursionError"
      /\ Cardinality({k \in 1..Len(calls') :
            calls'[k].op = "call_state" /\ calls'[k].state = INITIAL}) <= 1
      /\ Cardinality({k \in 1..Len(calls') : calls'[k].op = "call_state"}) <= 3
    ]_vars

C20_Witness ==
  /\ Succeeded
  /\ Len(calls) = 6
  /\ calls[1].state = NUMBER_END
  /\ Cardinality({k \in 1..Len(calls) : calls[k].op = "call_state"}) = 3

====
